---- MODULE Spec2Model ----
(***************************************************************************)
(* The capture service of Nabaikabaia/ss-api.  The repository holds three  *)
(* programs (deployments) that are near-duplicates of one another:         *)
(*   "index"   src/index.js lines 1-245: one shared browser, a context per *)
(*             job, GET /api/screenshot and GET /api/screenrecord;         *)
(*   "ss"      src/index.js lines 247-303: GET /ss, a browser per job;     *)
(*   "part000" src/unnamed/part_000: a browser per job, artifacts served   *)
(*             by reference from the temp directory.                       *)
(* A job is one HTTP request.  A handler is an async function: it runs     *)
(* atomically from one await to the next, so there is one action per       *)
(* awaited call, taken when that call returns or throws.                   *)
(***************************************************************************)
EXTENDS Integers, Sequences, FiniteSets, TLC

\* ------------------------------------------------------------- bounds
NJobs == 2
MaxTime == 1

Jobs == 1..NJobs

\* ------------------------------------------------------- JavaScript values
\* A query parameter that was not given (undefined before destructuring).
Absent == "<absent>"
Null == [t |-> "null"]
Undefined == [t |-> "undefined"]
InheritedFunction == [t |-> "function"]
Size(w, h) == [t |-> "size", width |-> w, height |-> h]
\* validateInput's "no error" return value.
NoError == "null"

\* !v for the values a device lookup can yield.
Falsy(v) == v \in {Null, Undefined}

\* ----------------------------------------------------------- request inputs
Deployments == {"index", "ss", "part000"}

Urls == {Absent, "", "not a url", "http://localhost/", "http://127.0.0.1:8080/x",
         "http://0.0.0.0/", "https://example.com/"}

Devices == {Absent, "phone", "tablet", "laptop", "desktop", "full", "watch",
            "constructor"}

Durations == {Absent, "0", "-5", "2.5", "abc", "10", "1000"}

GoodUrl == "https://example.com/"

\* The requests a job may make of a screenshot endpoint and of a recording
\* endpoint: every url with an absent and an unknown device, the good url with
\* every device, and every duration with the good url and the default device.
ShotRequests ==
  {q \in [url : Urls, device : Devices, duration : {Absent}] :
     q.url = GoodUrl \/ q.device \in {Absent, "watch"}}

RecRequests ==
  {q \in [url : Urls, device : Devices, duration : Durations] :
     /\ q.url = GoodUrl \/ (q.device \in {Absent, "watch"} /\ q.duration = Absent)
     /\ q.duration = Absent \/ q.device = Absent}

\* new URL(url): whether the string parses as an absolute URL, and its hostname.
ParseURL(url) ==
  CASE url = "http://localhost/" -> [ok |-> TRUE, hostname |-> "localhost"]
    [] url = "http://127.0.0.1:8080/x" -> [ok |-> TRUE, hostname |-> "127.0.0.1"]
    [] url = "http://0.0.0.0/" -> [ok |-> TRUE, hostname |-> "0.0.0.0"]
    [] url = "https://example.com/" -> [ok |-> TRUE, hostname |-> "example.com"]
    [] OTHER -> [ok |-> FALSE, hostname |-> ""]

\* !url: undefined and the empty string are falsy.
UrlMissing(url) == url \in {Absent, ""}

\* ------------------------------------------------------------ device table
deviceConfigs ==
  [phone |-> Size(375, 667), tablet |-> Size(768, 1024), laptop |-> Size(1366, 768),
   desktop |-> Size(1920, 1080), full |-> Null]

deviceKeys == DOMAIN deviceConfigs

\* Names every object inherits from Object.prototype.
ObjectPrototypeKeys == {"toString", "constructor", "valueOf", "hasOwnProperty"}

\* deviceConfigs[device]: an own property, an inherited one, or undefined.
Lookup(device) ==
  IF device \in deviceKeys THEN deviceConfigs[device]
  ELSE IF device \in ObjectPrototypeKeys THEN InheritedFunction
  ELSE Undefined

\* const { device = 'desktop' } = req.query
DefaultDevice(device) == IF device = Absent THEN "desktop" ELSE device

\* --------------------------------------------------------------- validation
blockedHosts == {"localhost", "127.0.0.1", "0.0.0.0"}

ErrRequired == "URL parameter is required"
ErrFormat == "Invalid URL format"
ErrLocal == "Local or internal URLs are not allowed"
ErrDevice == "Invalid device"
ErrDuration == "Invalid duration value"
ErrMissingSS == "Missing url parameter"

\* src/index.js validateInput(url, device)
validateInput_index(url, device) ==
  IF UrlMissing(url) THEN ErrRequired
  ELSE IF ~ParseURL(url).ok THEN ErrFormat
  ELSE IF ParseURL(url).hostname \in blockedHosts THEN ErrLocal
  ELSE IF Falsy(Lookup(device)) THEN ErrDevice
  ELSE NoError

\* src/unnamed/part_000 validateInput(url, device)
validateInput_part000(url, device) ==
  IF UrlMissing(url) THEN ErrRequired
  ELSE IF ~ParseURL(url).ok THEN ErrFormat
  ELSE IF device # "" /\ device \notin deviceKeys THEN ErrDevice
  ELSE NoError

\* --------------------------------------------------------------- durations
\* Numbers are held in thousandths, so that 2.5 is 2500 and d * 1000 (the
\* milliseconds handed to waitForTimeout) is the held value itself.
Num(m) == [nan |-> FALSE, m |-> m]
NaN == [nan |-> TRUE, m |-> 0]

\* Number(duration) for the query strings of Durations.
Number(s) ==
  CASE s = "0" -> Num(0)
    [] s = "-5" -> Num(-5000)
    [] s = "2.5" -> Num(2500)
    [] s = "10" -> Num(10000)
    [] s = "1000" -> Num(1000000)
    [] OTHER -> NaN

IsInteger(n) == ~n.nan /\ n.m % 1000 = 0

\* Math.min(n, 30); NaN if n is NaN.
MathMin30(n) == IF n.nan THEN NaN ELSE IF n.m < 30000 THEN n ELSE Num(30000)

\* n || 10: NaN and 0 are falsy.
OrTen(n) == IF n.nan \/ n.m = 0 THEN Num(10000) ELSE n

VARIABLES
  deploy,   \* which of the three programs is running
  process,  \* the Node process: "running" | "crashed"
  browser,  \* index: the shared browser, "unset" until the start-up launch returns
  now,      \* the last value Date.now() returned
  job,      \* per job: the local state of its handler (see NewJob)
  files,    \* the temp directory: path -> [owner: the job whose content the
            \* file holds, mtime: its modification time]
  sweep     \* the last run of cleanupTempFiles (see NoSweep)

vars == <<deploy, process, browser, now, job, files, sweep>>

NoReq == [ep |-> "none", url |-> Absent, device |-> Absent, duration |-> Absent]
Req(ep, q) == [ep |-> ep, url |-> q.url, device |-> q.device, duration |-> q.duration]
NoViewport == [t |-> "unset"]
NoWait == [t |-> "none"]
NoArtifact == [t |-> "none"]

\* A handler's locals before its request arrives.
NewJob ==
  [pc |-> "idle",             \* where the handler is suspended
   req |-> NoReq,             \* req.query
   context |-> "undefined",   \* its browsing context: "undefined" | "open" | "closed"
   contextId |-> 0,           \* which of the shared browser's contexts that is, 0 for none
   engine |-> "undefined",    \* its own browser (ss, part000): same values
   closeCalls |-> 0,          \* calls of context.close() / browser.close() so far
   stage |-> "start",         \* "navigated" once page.goto returned, "captured" once
                              \* the screenshot or the recording wait returned
   resp |-> <<>>,             \* the responses handed to res, in order
   viewport |-> NoViewport,   \* the viewport given to the page
   fullPage |-> FALSE,        \* the fullPage flag of its screenshot
   waited |-> NoWait,         \* the recording wait it performed, in thousandths of a second
   artifact |-> NoArtifact]   \* the path of the file it wrote or read

\* What the last run of cleanupTempFiles did: how it ended ("none" before
\* the first run, "returned" when no call threw, "absorbed" when a call threw
\* and the catch block took it, "raised" when the function threw), the listed
\* files another actor removed under it, and the files it deleted.
NoSweep == [outcome |-> "none", gone |-> {}, deleted |-> {}]

Init ==
  /\ deploy \in Deployments
  /\ process = "running"
  /\ browser = "unset"
  /\ now = 0
  /\ job = [j \in Jobs |-> NewJob]
  /\ files = <<>>
  /\ sweep = NoSweep

\* ---------------------------------------------------------------- responses
Err400(msg) == [status |-> 400, kind |-> "error", error |-> msg, ref |-> NoArtifact]
Err500(msg) == [status |-> 500, kind |-> "error", error |-> msg, ref |-> NoArtifact]
Ok200(kind, ref) == [status |-> 200, kind |-> kind, error |-> "", ref |-> ref]

\* res.send / res.json: the handler hands a response to Express.
Send(r, response) == [r EXCEPT !.resp = Append(@, response)]

\* Express refuses a response once one was sent (ERR_HTTP_HEADERS_SENT): the
\* call throws.
HeadersSent(r) == r.resp # <<>>

\* The handler with the `return` left out: it answers 400 and goes on.
ReturnIf_NoReturn(error, next) == next

\* if (error) return res.status(400).json({ error }): the handler ends here;
\* otherwise it goes on to `next`.
ReturnIf(error, next) == IF error # NoError THEN "done" ELSE next

\* Replace job j's locals.
SetJob(j, r) == job' = [job EXCEPT ![j] = r]

\* The handler's device variable.
DeviceOf(r) == DefaultDevice(r.req.device)

\* ------------------------------------------------------- process start-up
\* A handler that has ended: it returned, or its promise was rejected.
Finished(r) == r.pc \in {"done", "rejected"}

\* The process exits on an exception nothing catches (Node's default for an
\* uncaught exception and for an unhandled promise rejection): the handlers
\* that have not ended never resume, and no request is served any more.
Killed(r) == IF Finished(r) THEN r ELSE [r EXCEPT !.pc = "killed"]

\* index: (async () => { browser = await chromium.launch(...) })()
\* The launch returns and sets the variable.  Or it throws: the promise of
\* the async function is rejected, nothing handles the rejection, and the
\* process exits with the variable still undefined.
LaunchShared ==
  /\ deploy = "index"
  /\ process = "running"
  /\ browser = "unset"
  /\ \/ /\ browser' = "up"
        /\ UNCHANGED <<process, job>>
     \/ /\ browser' = "failed"
        /\ process' = "crashed"
        /\ job' = [j \in Jobs |-> Killed(job[j])]
  /\ UNCHANGED <<deploy, now, files, sweep>>

\* const maxAge = 30 * 60 * 1000 (thirtyMinutes in part_000), in milliseconds
maxAge == 30 * 60 * 1000

\* The instants the clock is read at, in milliseconds: the first ones, and
\* the ones a retention window later.
Clock == (0..MaxTime) \cup {maxAge + t : t \in 0..MaxTime}

\* Date.now() read by a handler when the last reading was `now`: time has not
\* gone back, may have stood still (the same millisecond), and has gone on
\* by MaxTime milliseconds at most.
DateNow == {t \in Clock : t >= now /\ t <= now + MaxTime}

\* Date.now() read by the timer's callback: any time later.
TimerNow == {t \in Clock : t >= now}

\* ------------------------------------- index: GET /api/screenshot handler
\* finally { if (context) await context.close(); }
\* A variant without the test of line 131: close is called whatever context holds.
ShotI_finally_Unguarded(r) == [r EXCEPT !.closeCalls = @ + 1, !.pc = "shot_close"]

ShotI_finally(r) ==
  IF r.context # "undefined"
  THEN [r EXCEPT !.closeCalls = @ + 1, !.pc = "shot_close"]
  ELSE [r EXCEPT !.pc = "done"]

\* catch (err) { res.status(500).json({...}) } and then the finally block.
ShotI_catch(r) == ShotI_finally(Send(r, Err500("Screenshot failed")))

\* The request arrives: validation, and the call of browser.newContext(),
\* which throws a TypeError at once while browser is not set.
ShotI_Request(j) ==
  /\ deploy = "index"
  /\ job[j].pc = "idle"
  /\ \E q \in ShotRequests :
       LET error == validateInput_index(q.url, DefaultDevice(q.device))
           r0 == [job[j] EXCEPT !.req = Req("screenshot", q)]
           r1 == IF error # NoError THEN Send(r0, Err400(error)) ELSE r0
       IN SetJob(j, IF ReturnIf(error, "try") = "done" THEN [r1 EXCEPT !.pc = "done"]
                    ELSE IF browser # "up" THEN ShotI_catch(r1)
                    ELSE [r1 EXCEPT !.pc = "shot_newContext"])
  /\ UNCHANGED <<deploy, process, browser, now, files, sweep>>

\* context = await browser.newContext()
\* A variant that hands out a context that is still open, when there is one.
newContext_Reuse ==
  IF \E k \in Jobs : job[k].context = "open"
  THEN job[CHOOSE k \in Jobs : job[k].context = "open"].contextId
  ELSE 1 + Cardinality({k \in Jobs : job[k].contextId # 0})

\* browser.newContext() on the shared browser: a new context object each call,
\* numbered in the order of creation.
newContext == 1 + Cardinality({k \in Jobs : job[k].contextId # 0})

ShotI_NewContext(j) ==
  /\ job[j].pc = "shot_newContext"
  /\ \E ok \in BOOLEAN :
       SetJob(j, IF ok THEN [job[j] EXCEPT !.context = "open", !.contextId = newContext,
                                           !.pc = "shot_newPage"]
                 ELSE ShotI_catch(job[j]))
  /\ UNCHANGED <<deploy, process, browser, now, files, sweep>>

\* const page = await context.newPage(); then the device !== 'full' test
ShotI_NewPage(j) ==
  /\ job[j].pc = "shot_newPage"
  /\ \E ok \in BOOLEAN :
       SetJob(j, IF ~ok THEN ShotI_catch(job[j])
                 ELSE IF DeviceOf(job[j]) # "full"
                 THEN [job[j] EXCEPT !.pc = "shot_setViewport"]
                 ELSE [job[j] EXCEPT !.pc = "shot_goto"])
  /\ UNCHANGED <<deploy, process, browser, now, files, sweep>>

\* await page.setViewportSize(deviceConfigs[device])
ShotI_SetViewport(j) ==
  /\ job[j].pc = "shot_setViewport"
  /\ \E ok \in BOOLEAN :
       SetJob(j, IF ok THEN [job[j] EXCEPT !.viewport = Lookup(DeviceOf(job[j])),
                                           !.pc = "shot_goto"]
                 ELSE ShotI_catch(job[j]))
  /\ UNCHANGED <<deploy, process, browser, now, files, sweep>>

\* await page.goto(url, { waitUntil: 'networkidle', timeout: 15000 }): it
\* returns, or throws (the timeout, a network error).
ShotI_Goto(j) ==
  /\ job[j].pc = "shot_goto"
  /\ \E ok \in BOOLEAN :
       SetJob(j, IF ok THEN [job[j] EXCEPT !.stage = "navigated", !.pc = "shot_settle"]
                 ELSE ShotI_catch(job[j]))
  /\ UNCHANGED <<deploy, process, browser, now, files, sweep>>

\* await page.waitForTimeout(1500)
ShotI_Settle(j) ==
  /\ job[j].pc = "shot_settle"
  /\ \E ok \in BOOLEAN :
       SetJob(j, IF ok THEN [job[j] EXCEPT !.pc = "shot_screenshot"]
                 ELSE ShotI_catch(job[j]))
  /\ UNCHANGED <<deploy, process, browser, now, files, sweep>>

\* const screenshot = await page.screenshot({...}); res.send(screenshot);
\* then the finally block.
ShotI_Screenshot(j) ==
  /\ job[j].pc = "shot_screenshot"
  /\ \E ok \in BOOLEAN :
       SetJob(j, IF ok
                 THEN ShotI_finally(Send([job[j] EXCEPT !.fullPage = (DeviceOf(job[j]) = "full"),
                                                         !.stage = "captured"],
                                         Ok200("image", NoArtifact)))
                 ELSE ShotI_catch(job[j]))
  /\ UNCHANGED <<deploy, process, browser, now, files, sweep>>

\* The finally block closing the shared browser instead of the job's context.
ShotI_Close_Browser(j) ==
  /\ job[j].pc = "shot_close"
  /\ SetJob(j, [job[j] EXCEPT !.context = "closed", !.pc = "done"])
  /\ browser' = "closed"
  /\ UNCHANGED <<deploy, process, now, files, sweep>>

\* The finally block's await context.close() returns, or throws: then the
\* context is left as it was and the handler's promise is rejected.
ShotI_Close(j) ==
  /\ job[j].pc = "shot_close"
  /\ \/ SetJob(j, [job[j] EXCEPT !.context = "closed", !.pc = "done"])
     \/ SetJob(j, [job[j] EXCEPT !.pc = "rejected"])
  /\ UNCHANGED <<deploy, process, browser, now, files, sweep>>

\* ------------------------------------- index: GET /api/screenrecord handler
\* The temp directory with path p written (created or overwritten) by job j:
\* the file system stamps the file with the time of the write.
WriteFile(p, j) == [q \in (DOMAIN files) \cup {p} |->
                      IF q = p THEN [owner |-> j, mtime |-> now] ELSE files[q]]

\* fs.unlinkSync(p)
RemoveFile(p) == [q \in (DOMAIN files) \ {p} |-> files[q]]

\* The file Playwright records page j's video to: recordVideo names only the
\* directory, and Playwright gives every page's video a name of its own.
VideoPath(j) == [t |-> "video", page |-> j]

\* catch (err) { if (context) await context.close(); res.status(500).json(...) }
\* up to the await, or to the end when there is no context.
RecI_catch(r) ==
  IF r.context # "undefined"
  THEN [r EXCEPT !.closeCalls = @ + 1, !.pc = "rec_catchClose"]
  ELSE [Send(r, Err500("Screen recording failed")) EXCEPT !.pc = "done"]

\* const d = Number(duration); if (!Number.isInteger(d) || d <= 0) return 400
DurationError(d) == IF ~IsInteger(d) \/ d.m <= 0 THEN ErrDuration ELSE NoError

\* const { duration = '10' } = req.query
DefaultDurationI(duration) == IF duration = Absent THEN "10" ELSE duration

\* const recordDuration = Math.min(d, 30)
recordDuration(r) == MathMin30(Number(DefaultDurationI(r.req.duration)))

RecI_Request(j) ==
  /\ deploy = "index"
  /\ job[j].pc = "idle"
  /\ \E q \in RecRequests :
       LET error == validateInput_index(q.url, DefaultDevice(q.device))
           derror == DurationError(Number(DefaultDurationI(q.duration)))
           r0 == [job[j] EXCEPT !.req = Req("screenrecord", q)]
           r1 == IF error # NoError THEN Send(r0, Err400(error)) ELSE r0
           r2 == IF derror # NoError THEN Send(r1, Err400(derror)) ELSE r1
       IN SetJob(j, IF ReturnIf(error, "duration") = "done" THEN [r1 EXCEPT !.pc = "done"]
                    ELSE IF ReturnIf(derror, "try") = "done" THEN [r2 EXCEPT !.pc = "done"]
                    ELSE IF browser # "up" THEN RecI_catch(r2)
                    ELSE [r2 EXCEPT !.pc = "rec_newContext"])
  /\ UNCHANGED <<deploy, process, browser, now, files, sweep>>

\* context = await browser.newContext({ recordVideo: { dir: tempDir, size } })
RecI_NewContext(j) ==
  /\ job[j].pc = "rec_newContext"
  /\ \E ok \in BOOLEAN :
       SetJob(j, IF ok THEN [job[j] EXCEPT !.context = "open", !.contextId = newContext,
                                           !.pc = "rec_newPage"]
                 ELSE RecI_catch(job[j]))
  /\ UNCHANGED <<deploy, process, browser, now, files, sweep>>

\* const page = await context.newPage(): the page's recording starts, into a
\* file of the temp directory.
RecI_NewPage(j) ==
  /\ job[j].pc = "rec_newPage"
  /\ \/ /\ SetJob(j, IF DeviceOf(job[j]) # "full"
                     THEN [job[j] EXCEPT !.pc = "rec_setViewport"]
                     ELSE [job[j] EXCEPT !.pc = "rec_goto"])
        /\ files' = WriteFile(VideoPath(j), j)
     \/ /\ SetJob(j, RecI_catch(job[j]))
        /\ UNCHANGED files
  /\ UNCHANGED <<deploy, process, browser, now, sweep>>

\* await page.setViewportSize(deviceConfigs[device])
RecI_SetViewport(j) ==
  /\ job[j].pc = "rec_setViewport"
  /\ \E ok \in BOOLEAN :
       SetJob(j, IF ok THEN [job[j] EXCEPT !.viewport = Lookup(DeviceOf(job[j])),
                                           !.pc = "rec_goto"]
                 ELSE RecI_catch(job[j]))
  /\ UNCHANGED <<deploy, process, browser, now, files, sweep>>

\* await page.goto(url, { waitUntil: 'networkidle', timeout: 15000 })
RecI_Goto(j) ==
  /\ job[j].pc = "rec_goto"
  /\ \E ok \in BOOLEAN :
       SetJob(j, IF ok THEN [job[j] EXCEPT !.stage = "navigated", !.pc = "rec_settle"]
                 ELSE RecI_catch(job[j]))
  /\ UNCHANGED <<deploy, process, browser, now, files, sweep>>

\* await page.waitForTimeout(2000)
RecI_Settle(j) ==
  /\ job[j].pc = "rec_settle"
  /\ \E ok \in BOOLEAN :
       SetJob(j, IF ok THEN [job[j] EXCEPT !.pc = "rec_wait"]
                 ELSE RecI_catch(job[j]))
  /\ UNCHANGED <<deploy, process, browser, now, files, sweep>>

\* await page.waitForTimeout(recordDuration * 1000); const video = page.video();
\* and the call of context.close() on line 170.
RecI_Wait(j) ==
  /\ job[j].pc = "rec_wait"
  /\ \E ok \in BOOLEAN :
       SetJob(j, IF ok THEN [job[j] EXCEPT !.waited = recordDuration(job[j]),
                                           !.stage = "captured",
                                           !.closeCalls = @ + 1, !.pc = "rec_close"]
                 ELSE RecI_catch(job[j]))
  /\ UNCHANGED <<deploy, process, browser, now, files, sweep>>

\* await context.close() of line 170 returns, the recording flushed to its
\* file if the file is still there, or throws into the catch block (a close()
\* that throws leaves the context as it was).
RecI_Close(j) ==
  /\ job[j].pc = "rec_close"
  /\ \/ /\ SetJob(j, [job[j] EXCEPT !.context = "closed", !.pc = "rec_path"])
        /\ files' = IF VideoPath(j) \in DOMAIN files THEN WriteFile(VideoPath(j), j)
                    ELSE files
     \/ /\ SetJob(j, RecI_catch(job[j]))
        /\ UNCHANGED files
  /\ UNCHANGED <<deploy, process, browser, now, sweep>>

\* const videoPath = await video.path(); fs.readFileSync(videoPath);
\* res.send(videoBuffer); fs.unlinkSync(videoPath).  Each of video.path(),
\* readFileSync and unlinkSync returns or throws; readFileSync throws when the
\* file is gone.
RecI_Deliver(j) ==
  /\ job[j].pc = "rec_path"
  /\ LET r0 == [job[j] EXCEPT !.artifact = VideoPath(j)]
         sent == Send(r0, Ok200("video", VideoPath(j)))
     IN \/ /\ SetJob(j, RecI_catch(job[j]))          \* video.path() throws
           /\ UNCHANGED files
        \/ /\ SetJob(j, RecI_catch(r0))              \* readFileSync throws
           /\ UNCHANGED files
        \/ /\ VideoPath(j) \in DOMAIN files          \* sent and deleted
           /\ SetJob(j, [sent EXCEPT !.pc = "done"])
           /\ files' = RemoveFile(VideoPath(j))
        \/ /\ VideoPath(j) \in DOMAIN files          \* sent, unlinkSync throws
           /\ SetJob(j, RecI_catch(sent))
           /\ UNCHANGED files
  /\ UNCHANGED <<deploy, process, browser, now, sweep>>

\* The catch block's await context.close() returns, and res.status(500).json
\* follows: Express throws when a response was already sent, and the handler's
\* promise is rejected.  Or close() throws: the context is left as it was,
\* the promise is rejected and no response is made.
RecI_CatchClose(j) ==
  /\ job[j].pc = "rec_catchClose"
  /\ \/ LET r0 == [job[j] EXCEPT !.context = "closed"]
            r1 == Send(r0, Err500("Screen recording failed"))
        IN SetJob(j, [r1 EXCEPT !.pc = IF HeadersSent(r0) THEN "rejected" ELSE "done"])
     \/ SetJob(j, [job[j] EXCEPT !.pc = "rejected"])
  /\ UNCHANGED <<deploy, process, browser, now, files, sweep>>

\* ------------------------------------------------- ss: GET /ss handler
\* finally { if (browser) await browser.close(); }
SS_finally(r) ==
  IF r.engine # "undefined"
  THEN [r EXCEPT !.closeCalls = @ + 1, !.pc = "ss_close"]
  ELSE [r EXCEPT !.pc = "done"]

\* catch (err) { console.error(err); res.status(500).json({...}) } and finally
SS_catch(r) == SS_finally(Send(r, Err500("Screenshot failed")))

\* if (!url) return res.status(400).json({ error: "Missing url parameter" })
validateInput_ss(url) == IF UrlMissing(url) THEN ErrMissingSS ELSE NoError

\* The request arrives: the url test, and the call of chromium.launch().
SS_Request(j) ==
  /\ deploy = "ss"
  /\ job[j].pc = "idle"
  /\ \E q \in ShotRequests :
       LET error == validateInput_ss(q.url)
           r0 == [job[j] EXCEPT !.req = Req("ss", q)]
           r1 == IF error # NoError THEN Send(r0, Err400(error)) ELSE r0
       IN SetJob(j, [r1 EXCEPT !.pc = ReturnIf(error, "ss_launch")])
  /\ UNCHANGED <<deploy, process, browser, now, files, sweep>>

\* browser = await chromium.launch({...})
SS_Launch(j) ==
  /\ job[j].pc = "ss_launch"
  /\ \E ok \in BOOLEAN :
       SetJob(j, IF ok THEN [job[j] EXCEPT !.engine = "open", !.pc = "ss_newPage"]
                 ELSE SS_catch(job[j]))
  /\ UNCHANGED <<deploy, process, browser, now, files, sweep>>

\* const page = await browser.newPage({ viewport: { width: 1280, height: 720 } })
SS_NewPage(j) ==
  /\ job[j].pc = "ss_newPage"
  /\ \E ok \in BOOLEAN :
       SetJob(j, IF ok THEN [job[j] EXCEPT !.viewport = Size(1280, 720), !.pc = "ss_goto"]
                 ELSE SS_catch(job[j]))
  /\ UNCHANGED <<deploy, process, browser, now, files, sweep>>

\* await page.goto(url, { waitUntil: "networkidle", timeout: 60000 })
SS_Goto(j) ==
  /\ job[j].pc = "ss_goto"
  /\ \E ok \in BOOLEAN :
       SetJob(j, IF ok THEN [job[j] EXCEPT !.stage = "navigated", !.pc = "ss_screenshot"]
                 ELSE SS_catch(job[j]))
  /\ UNCHANGED <<deploy, process, browser, now, files, sweep>>

\* const screenshot = await page.screenshot({ fullPage: true }); res.send(screenshot)
SS_Screenshot(j) ==
  /\ job[j].pc = "ss_screenshot"
  /\ \E ok \in BOOLEAN :
       SetJob(j, IF ok
                 THEN SS_finally(Send([job[j] EXCEPT !.fullPage = TRUE, !.stage = "captured"],
                                      Ok200("image", NoArtifact)))
                 ELSE SS_catch(job[j]))
  /\ UNCHANGED <<deploy, process, browser, now, files, sweep>>

\* The finally block's await browser.close() returns, or throws and leaves the
\* browser as it was.
SS_Close(j) ==
  /\ job[j].pc = "ss_close"
  /\ \/ SetJob(j, [job[j] EXCEPT !.engine = "closed", !.pc = "done"])
     \/ SetJob(j, [job[j] EXCEPT !.pc = "rejected"])
  /\ UNCHANGED <<deploy, process, browser, now, files, sweep>>

\* ----------------------------------- part000: GET /api/screenshot handler
\* path.join(tempDir, `screenshot-${device}-${timestamp}.png`)
ShotPath(device, timestamp) == [t |-> "screenshot", device |-> device, ts |-> timestamp]

\* path.join(tempDir, `record-${device}-${timestamp}.webm`)
RecPath(device, timestamp) == [t |-> "record", device |-> device, ts |-> timestamp]

\* finally { if (browser) await browser.close(); } of both part000 handlers
P_finally(r) ==
  IF r.engine # "undefined"
  THEN [r EXCEPT !.closeCalls = @ + 1, !.pc = "p_close"]
  ELSE [r EXCEPT !.pc = "done"]

\* catch (err) { res.status(500).json({ error: 'Screenshot failed', ... }) }
ShotP_catch(r) == P_finally(Send(r, Err500("Screenshot failed")))

\* The request arrives: validation, the file name from Date.now(), and the
\* call of chromium.launch().
ShotP_Request(j) ==
  /\ deploy = "part000"
  /\ job[j].pc = "idle"
  /\ \E q \in ShotRequests, timestamp \in DateNow :
       LET device == DefaultDevice(q.device)
           errMsg == validateInput_part000(q.url, device)
           r0 == [job[j] EXCEPT !.req = Req("screenshot", q)]
           r1 == IF errMsg # NoError THEN Send(r0, Err400(errMsg)) ELSE r0
           returned == ReturnIf(errMsg, "try") = "done"
       IN /\ now' = IF returned THEN now ELSE timestamp
          /\ SetJob(j, IF returned THEN [r1 EXCEPT !.pc = "done"]
                       ELSE [r1 EXCEPT !.artifact = ShotPath(device, timestamp),
                                       !.pc = "pshot_launch"])
  /\ UNCHANGED <<deploy, process, browser, files, sweep>>

\* browser = await chromium.launch({...})
ShotP_Launch(j) ==
  /\ job[j].pc = "pshot_launch"
  /\ \E ok \in BOOLEAN :
       SetJob(j, IF ok THEN [job[j] EXCEPT !.engine = "open", !.pc = "pshot_newPage"]
                 ELSE ShotP_catch(job[j]))
  /\ UNCHANGED <<deploy, process, browser, now, files, sweep>>

\* const page = await browser.newPage(); then the device !== 'full' test
ShotP_NewPage(j) ==
  /\ job[j].pc = "pshot_newPage"
  /\ \E ok \in BOOLEAN :
       SetJob(j, IF ~ok THEN ShotP_catch(job[j])
                 ELSE IF DeviceOf(job[j]) # "full"
                 THEN [job[j] EXCEPT !.pc = "pshot_setViewport"]
                 ELSE [job[j] EXCEPT !.pc = "pshot_goto"])
  /\ UNCHANGED <<deploy, process, browser, now, files, sweep>>

\* await page.setViewportSize(deviceConfigs[device])
ShotP_SetViewport(j) ==
  /\ job[j].pc = "pshot_setViewport"
  /\ \E ok \in BOOLEAN :
       SetJob(j, IF ok THEN [job[j] EXCEPT !.viewport = Lookup(DeviceOf(job[j])),
                                           !.pc = "pshot_goto"]
                 ELSE ShotP_catch(job[j]))
  /\ UNCHANGED <<deploy, process, browser, now, files, sweep>>

\* await page.goto(url, { waitUntil: 'networkidle', timeout: 30000 })
ShotP_Goto(j) ==
  /\ job[j].pc = "pshot_goto"
  /\ \E ok \in BOOLEAN :
       SetJob(j, IF ok THEN [job[j] EXCEPT !.stage = "navigated", !.pc = "pshot_settle"]
                 ELSE ShotP_catch(job[j]))
  /\ UNCHANGED <<deploy, process, browser, now, files, sweep>>

\* await page.waitForTimeout(2000)
ShotP_Settle(j) ==
  /\ job[j].pc = "pshot_settle"
  /\ \E ok \in BOOLEAN :
       SetJob(j, IF ok THEN [job[j] EXCEPT !.pc = "pshot_screenshot"]
                 ELSE ShotP_catch(job[j]))
  /\ UNCHANGED <<deploy, process, browser, now, files, sweep>>

\* await page.screenshot({ path: filePath, ... }) writes the file and
\* res.json({ success: true, url: `/temp/${filename}` }) follows; or it throws,
\* with the file written in part or not at all.
ShotP_Screenshot(j) ==
  /\ job[j].pc = "pshot_screenshot"
  /\ \/ /\ SetJob(j, P_finally(Send([job[j] EXCEPT !.fullPage = (DeviceOf(job[j]) = "full"),
                                                    !.stage = "captured"],
                                    Ok200("ref", job[j].artifact))))
        /\ files' = WriteFile(job[j].artifact, j)
     \/ /\ SetJob(j, ShotP_catch(job[j]))
        /\ \E partial \in BOOLEAN :
             files' = IF partial THEN WriteFile(job[j].artifact, j) ELSE files
  /\ UNCHANGED <<deploy, process, browser, now, sweep>>

\* The finally block's await browser.close() returns, closing the browser and
\* its context, or throws and leaves them as they were.
P_Close(j) ==
  /\ job[j].pc = "p_close"
  /\ \/ SetJob(j, [job[j] EXCEPT !.engine = "closed",
                                 !.context = IF @ = "undefined" THEN @ ELSE "closed",
                                 !.pc = "done"])
     \/ SetJob(j, [job[j] EXCEPT !.pc = "rejected"])
  /\ UNCHANGED <<deploy, process, browser, now, files, sweep>>

\* ---------------------------------- part000: GET /api/screenrecord handler
\* catch (err) { res.status(500).json({ error: 'Screen recording failed', ... }) }
RecP_catch(r) == P_finally(Send(r, Err500("Screen recording failed")))

\* const { duration = 10 } = req.query; Math.min(Number(duration) || 10, 30)
dur(r) ==
  MathMin30(OrTen(IF r.req.duration = Absent THEN Num(10000) ELSE Number(r.req.duration)))

\* The request arrives: dur, validation, the file name from Date.now(), and
\* the call of chromium.launch().
RecP_Request(j) ==
  /\ deploy = "part000"
  /\ job[j].pc = "idle"
  /\ \E q \in RecRequests, timestamp \in DateNow :
       LET device == DefaultDevice(q.device)
           errMsg == validateInput_part000(q.url, device)
           r0 == [job[j] EXCEPT !.req = Req("screenrecord", q)]
           r1 == IF errMsg # NoError THEN Send(r0, Err400(errMsg)) ELSE r0
           returned == ReturnIf(errMsg, "try") = "done"
       IN /\ now' = IF returned THEN now ELSE timestamp
          /\ SetJob(j, IF returned THEN [r1 EXCEPT !.pc = "done"]
                       ELSE [r1 EXCEPT !.artifact = RecPath(device, timestamp),
                                       !.pc = "prec_launch"])
  /\ UNCHANGED <<deploy, process, browser, files, sweep>>

\* browser = await chromium.launch({...})
RecP_Launch(j) ==
  /\ job[j].pc = "prec_launch"
  /\ \E ok \in BOOLEAN :
       SetJob(j, IF ok THEN [job[j] EXCEPT !.engine = "open", !.pc = "prec_newContext"]
                 ELSE RecP_catch(job[j]))
  /\ UNCHANGED <<deploy, process, browser, now, files, sweep>>

\* context = await browser.newContext({ viewport: deviceConfigs[device] || undefined })
RecP_NewContext(j) ==
  /\ job[j].pc = "prec_newContext"
  /\ \E ok \in BOOLEAN :
       SetJob(j, IF ok
                 THEN [job[j] EXCEPT !.context = "open",
                                     !.viewport = IF Falsy(Lookup(DeviceOf(job[j])))
                                                  THEN Undefined
                                                  ELSE Lookup(DeviceOf(job[j])),
                                     !.pc = "prec_newPage"]
                 ELSE RecP_catch(job[j]))
  /\ UNCHANGED <<deploy, process, browser, now, files, sweep>>

\* page = await context.newPage()
RecP_NewPage(j) ==
  /\ job[j].pc = "prec_newPage"
  /\ \E ok \in BOOLEAN :
       SetJob(j, IF ok THEN [job[j] EXCEPT !.pc = "prec_goto"] ELSE RecP_catch(job[j]))
  /\ UNCHANGED <<deploy, process, browser, now, files, sweep>>

\* await page.goto(url, { waitUntil: 'networkidle', timeout: 30000 })
RecP_Goto(j) ==
  /\ job[j].pc = "prec_goto"
  /\ \E ok \in BOOLEAN :
       SetJob(j, IF ok THEN [job[j] EXCEPT !.stage = "navigated", !.pc = "prec_settle"]
                 ELSE RecP_catch(job[j]))
  /\ UNCHANGED <<deploy, process, browser, now, files, sweep>>

\* await page.waitForTimeout(1000)
RecP_Settle(j) ==
  /\ job[j].pc = "prec_settle"
  /\ \E ok \in BOOLEAN :
       SetJob(j, IF ok THEN [job[j] EXCEPT !.pc = "prec_startVideo"]
                 ELSE RecP_catch(job[j]))
  /\ UNCHANGED <<deploy, process, browser, now, files, sweep>>

\* await page.startVideo({ path: filePath }): the recording starts into the
\* file, or the call throws.
RecP_StartVideo(j) ==
  /\ job[j].pc = "prec_startVideo"
  /\ \/ /\ SetJob(j, [job[j] EXCEPT !.pc = "prec_wait"])
        /\ files' = WriteFile(job[j].artifact, j)
     \/ /\ SetJob(j, RecP_catch(job[j]))
        /\ UNCHANGED files
  /\ UNCHANGED <<deploy, process, browser, now, sweep>>

\* await page.waitForTimeout(dur * 1000)
RecP_Wait(j) ==
  /\ job[j].pc = "prec_wait"
  /\ \E ok \in BOOLEAN :
       SetJob(j, IF ok THEN [job[j] EXCEPT !.waited = dur(job[j]), !.stage = "captured",
                                           !.pc = "prec_pageClose"]
                 ELSE RecP_catch(job[j]))
  /\ UNCHANGED <<deploy, process, browser, now, files, sweep>>

\* await page.close(); res.json({ success: true, url: `/temp/${filename}` })
RecP_PageClose(j) ==
  /\ job[j].pc = "prec_pageClose"
  /\ \E ok \in BOOLEAN :
       SetJob(j, IF ok THEN P_finally(Send(job[j], Ok200("ref", job[j].artifact)))
                 ELSE RecP_catch(job[j]))
  /\ UNCHANGED <<deploy, process, browser, now, files, sweep>>

\* ------------------------------- cleanupTempFiles, run by setInterval
\* The orders fs.readdirSync(tempDir) may list the names in.
Listings(names) ==
  {l \in [1..Cardinality(names) -> names] :
     \A i, k \in 1..Cardinality(names) : i # k => l[i] # l[k]}

\* Directory dir without the files named in `gone`.
Without(dir, gone) == [q \in (DOMAIN dir) \ gone |-> dir[q]]

\* .forEach(file => { if (now - fs.statSync(filePath).mtime.getTime() > maxAge)
\* fs.unlinkSync(filePath) }) over the listed names, on directory dir with
\* the clock reading n: the directory it leaves, and whether a call threw.
\* statSync throws for a name whose file is no longer there, and the
\* exception ends the loop.
RECURSIVE forEach(_, _, _)
forEach(listing, dir, n) ==
  IF listing = <<>> THEN [dir |-> dir, threw |-> FALSE]
  ELSE IF Head(listing) \notin DOMAIN dir THEN [dir |-> dir, threw |-> TRUE]
  ELSE IF n - dir[Head(listing)].mtime > maxAge
  THEN forEach(Tail(listing), Without(dir, {Head(listing)}), n)
  ELSE forEach(Tail(listing), dir, n)

\* The function with its catch block rethrowing what the loop threw.
cleanupThrows_Rethrow(threw) == threw

\* try { ... } catch {}: whether cleanupTempFiles throws, given whether a
\* call inside its try block threw.
cleanupThrows(threw) == FALSE

\* One run of cleanupTempFiles, from the timer.  It is synchronous, so no
\* handler runs during it; another actor on the file system may remove a
\* file after readdirSync listed it (`gone`).  readdirSync itself returns or
\* throws.  An exception leaving the timer callback ends the process.
cleanupTempFiles ==
  /\ deploy \in {"index", "part000"}
  /\ process = "running"
  /\ \E n \in TimerNow, listing \in Listings(DOMAIN files), listed \in BOOLEAN,
        gone \in {g \in SUBSET DOMAIN files : Cardinality(g) <= 1} :
       LET r == IF listed THEN forEach(listing, Without(files, gone), n)
                ELSE [dir |-> files, threw |-> TRUE]
           raised == cleanupThrows(r.threw)
       IN /\ now' = n
          /\ files' = r.dir
          /\ process' = IF raised THEN "crashed" ELSE process
          /\ job' = IF raised THEN [j \in Jobs |-> Killed(job[j])] ELSE job
          /\ sweep' = [outcome |-> IF raised THEN "raised"
                                   ELSE IF r.threw THEN "absorbed" ELSE "returned",
                       gone |-> IF listed THEN gone ELSE {},
                       deleted |-> (DOMAIN files) \ (gone \cup DOMAIN r.dir)]
  /\ UNCHANGED <<deploy, browser>>

Next ==
  \/ LaunchShared
  \/ \E j \in Jobs :
       \/ ShotI_Request(j)
       \/ ShotI_NewContext(j)
       \/ ShotI_NewPage(j)
       \/ ShotI_SetViewport(j)
       \/ ShotI_Goto(j)
       \/ ShotI_Settle(j)
       \/ ShotI_Screenshot(j)
       \/ ShotI_Close(j)
       \/ RecI_Request(j)
       \/ RecI_NewContext(j)
       \/ RecI_NewPage(j)
       \/ RecI_SetViewport(j)
       \/ RecI_Goto(j)
       \/ RecI_Settle(j)
       \/ RecI_Wait(j)
       \/ RecI_Close(j)
       \/ RecI_Deliver(j)
       \/ RecI_CatchClose(j)
       \/ SS_Request(j)
       \/ SS_Launch(j)
       \/ SS_NewPage(j)
       \/ SS_Goto(j)
       \/ SS_Screenshot(j)
       \/ SS_Close(j)
       \/ ShotP_Request(j)
       \/ ShotP_Launch(j)
       \/ ShotP_NewPage(j)
       \/ ShotP_SetViewport(j)
       \/ ShotP_Goto(j)
       \/ ShotP_Settle(j)
       \/ ShotP_Screenshot(j)
       \/ P_Close(j)
       \/ RecP_Request(j)
       \/ RecP_Launch(j)
       \/ RecP_NewContext(j)
       \/ RecP_NewPage(j)
       \/ RecP_Goto(j)
       \/ RecP_Settle(j)
       \/ RecP_StartVideo(j)
       \/ RecP_Wait(j)
       \/ RecP_PageClose(j)

\* The handlers alone: the runs before the timer first fires.
Spec == Init /\ [][Next]_vars

\* ------------------------------------- the service with its timer running
\* The start-up launch, if any, has returned.
SweepInit ==
  /\ deploy \in {"index", "part000"}
  /\ process = "running"
  /\ browser = IF deploy = "index" THEN "up" ELSE "unset"
  /\ now = 0
  /\ job = [j \in Jobs |-> NewJob]
  /\ files = <<>>
  /\ sweep = NoSweep

\* A request for the good url with no device and no duration given.
Plain(r) ==
  r.req.url = GoodUrl /\ r.req.device = Absent /\ r.req.duration = Absent

\* The timer's callback, and the handlers that write to the temp directory,
\* serving plain requests.
SweepNext ==
  \/ cleanupTempFiles
  \/ \E j \in Jobs :
       \/ RecI_Request(j) /\ Plain(job'[j])
       \/ RecI_NewContext(j)
       \/ RecI_NewPage(j)
       \/ RecI_SetViewport(j)
       \/ RecI_Goto(j)
       \/ RecI_Settle(j)
       \/ RecI_Wait(j)
       \/ RecI_Close(j)
       \/ RecI_Deliver(j)
       \/ RecI_CatchClose(j)
       \/ ShotP_Request(j) /\ Plain(job'[j])
       \/ ShotP_Launch(j)
       \/ ShotP_NewPage(j)
       \/ ShotP_SetViewport(j)
       \/ ShotP_Goto(j)
       \/ ShotP_Settle(j)
       \/ ShotP_Screenshot(j)
       \/ P_Close(j)
       \/ RecP_Request(j) /\ Plain(job'[j])
       \/ RecP_Launch(j)
       \/ RecP_NewContext(j)
       \/ RecP_NewPage(j)
       \/ RecP_Goto(j)
       \/ RecP_Settle(j)
       \/ RecP_StartVideo(j)
       \/ RecP_Wait(j)
       \/ RecP_PageClose(j)

SweepSpec == SweepInit /\ [][SweepNext]_vars

\* ================================================================ claims
Acquired(r) == r.context # "undefined" \/ r.engine # "undefined"
HoldsOpen(r) == r.context = "open" \/ r.engine = "open"
Statuses(r) == {r.resp[i].status : i \in 1..Len(r.resp)}

\* C1: every job that acquired a context or launched a browser has called
\* close exactly once, not zero times and not twice, by the time its handler
\* has ended.
C1_ReleasedExactlyOnce ==
  \A j \in Jobs :
    Finished(job[j]) /\ Acquired(job[j]) => job[j].closeCalls = 1

\* C2: no error result is sent for a job while the context or browser it
\* acquired is still open.
C2_ReleasedBeforeError ==
  \A j \in Jobs : 500 \in Statuses(job[j]) => ~HoldsOpen(job[j])

\* C3: a job's handler hands at most one response to res, so never a success
\* payload and an error result both.
C3_AtMostOneResponse ==
  \A j \in Jobs :
    /\ Len(job[j].resp) <= 1
    /\ ~(200 \in Statuses(job[j]) /\ 500 \in Statuses(job[j]))

\* C4: a job that passed validation has yielded a result to the caller by
\* the time its handler has ended (every call the handler awaits returns or
\* throws, so every handler ends).
C4_EndedJobsAnswered ==
  \A j \in Jobs : Finished(job[j]) => job[j].resp # <<>>

\* C5: two jobs never have the same artifact path, and the file a job's
\* response refers to holds that job's content.
C5_ArtifactsDistinctAndOwn ==
  /\ \A j, k \in Jobs :
       j # k /\ job[j].artifact # NoArtifact => job[j].artifact # job[k].artifact
  /\ \A j \in Jobs : \A i \in 1..Len(job[j].resp) :
       LET ref == job[j].resp[i].ref
       IN ref # NoArtifact /\ ref \in DOMAIN files => files[ref].owner = j

\* C6: a request whose url's hostname is 127.0.0.1, localhost or 0.0.0.0 is
\* answered with the blocked-host validation error, whatever its device, at
\* every endpoint, and acquires nothing.
C6_BlockedHostRejected ==
  \A j \in Jobs :
    job[j].pc # "idle" /\ ParseURL(job[j].req.url).hostname \in blockedHosts =>
      job[j].resp = <<Err400(ErrLocal)>> /\ ~Acquired(job[j])

\* C7: a job answered with a validation error (status 400) has done nothing
\* else: its handler has ended with that one response, it acquired no context
\* and launched no browser, called no close, and set no viewport, wait or
\* artifact.
C7_ValidationErrorTouchesNothing ==
  \A j \in Jobs :
    400 \in Statuses(job[j]) =>
      /\ job[j].pc = "done"
      /\ Len(job[j].resp) = 1
      /\ ~Acquired(job[j])
      /\ job[j].closeCalls = 0
      /\ job[j].viewport = NoViewport
      /\ job[j].waited = NoWait
      /\ job[j].artifact = NoArtifact

\* Two requests of one run have been refused by validation, one for its
\* duration (after url and device passed) and one for its device.
C7_Witness ==
  \E j, k \in Jobs :
    /\ j # k
    /\ job[j].resp = <<Err400(ErrDuration)>>
    /\ job[k].resp = <<Err400(ErrDevice)>>

\* The duration a request asks for: the query string as a number, 10 when
\* the parameter is absent.
Requested(r) == IF r.req.duration = Absent THEN Num(10000) ELSE Number(r.req.duration)

\* C8: the recording wait a job performed is min(d, 30) seconds for the
\* (numeric) duration d it asked for, and never more than 30 seconds.
C8_WaitIsMinOfRequested ==
  \A j \in Jobs :
    job[j].waited # NoWait /\ ~Requested(job[j]).nan =>
      /\ job[j].waited = MathMin30(Requested(job[j]))
      /\ job[j].waited.m <= 30000

\* A recording request, valid but for its duration, which is not a positive
\* integer.
BadDuration(r) ==
  /\ r.req.ep = "screenrecord"
  /\ r.req.url = GoodUrl
  /\ DefaultDevice(r.req.device) \in {"phone", "tablet", "laptop", "desktop"}
  /\ r.req.duration # Absent
  /\ ~IsInteger(Number(r.req.duration)) \/ Number(r.req.duration).m <= 0

\* C9: a recording request whose duration is not a positive integer is
\* answered with the invalid-duration validation error and performs no
\* recording wait.
C9_BadDurationRejected ==
  \A j \in Jobs :
    BadDuration(job[j]) =>
      job[j].resp = <<Err400(ErrDuration)>> /\ job[j].waited = NoWait

\* A screenshot or recording request with the good url, a device of the table
\* (or none) and, if any, a good duration.
ValidPair(r) ==
  /\ r.req.ep \in {"screenshot", "screenrecord"}
  /\ r.req.url = GoodUrl
  /\ DefaultDevice(r.req.device) \in {"phone", "tablet", "laptop", "desktop", "full"}
  /\ r.req.duration \in {Absent, "10", "1000"}

\* C10: a valid (url, device) pair gets no validation error; its page gets
\* the table's viewport and a screenshot with full-page off, except full,
\* which gets no fixed viewport and full-page on.
C10_ValidPairsAccepted ==
  \A j \in Jobs :
    ValidPair(job[j]) =>
      LET device == DefaultDevice(job[j].req.device)
      IN /\ 400 \notin Statuses(job[j])
         /\ device # "full" =>
              /\ job[j].viewport \in {NoViewport, deviceConfigs[device]}
              /\ ~job[j].fullPage
         /\ device = "full" =>
              /\ job[j].viewport \in {NoViewport, Undefined}
              /\ (200 \in Statuses(job[j]) /\ job[j].req.ep = "screenshot"
                    => job[j].fullPage)

\* A screenshot or recording request with the good url and a device string
\* that is present and is not a key of the device table.
UnknownDevice(r) ==
  /\ r.req.ep \in {"screenshot", "screenrecord"}
  /\ r.req.url = GoodUrl
  /\ r.req.device \notin deviceKeys \cup {Absent}

\* C11: a request whose device is present and not a key of the device table
\* (names inherited from Object.prototype included) is answered with the
\* unknown-device validation error, and no viewport is taken from the table
\* for it.
C11_UnknownDeviceRejected ==
  \A j \in Jobs :
    UnknownDevice(job[j]) =>
      job[j].resp = <<Err400(ErrDevice)>> /\ job[j].viewport = NoViewport

\* C12: when a run of cleanupTempFiles that listed the directory completes,
\* every file that was older than the retention window at the start of the
\* run is gone and every file that was not, and that no other actor removed,
\* is still there; also in a run in which a listed file was removed by
\* another actor before the run reached it.
C12_SweepDeletesOldKeepsNew ==
  [][cleanupTempFiles /\ (sweep'.outcome = "returned" \/ sweep'.gone # {}) =>
       \A p \in DOMAIN files :
         /\ now' - files[p].mtime > maxAge => p \notin DOMAIN files'
         /\ now' - files[p].mtime <= maxAge /\ p \notin sweep'.gone =>
              p \in DOMAIN files']_vars

\* C13: a run of cleanupTempFiles never raises: whatever its calls throw
\* (a listed file that is gone, a directory that cannot be listed), the run
\* ends normally, the process keeps running and no handler's state changes.
C13_SweepNeverRaises ==
  [][cleanupTempFiles =>
       /\ sweep'.outcome \in {"returned", "absorbed"}
       /\ process' = "running"
       /\ job' = job]_vars

\* A run in which a listed file was gone has ended, absorbed, while a
\* handler was between two awaits.
C13_Witness ==
  /\ sweep.outcome = "absorbed"
  /\ sweep.gone # {}
  /\ process = "running"
  /\ \E j \in Jobs : job[j].pc \notin {"idle", "done", "rejected", "killed"}

\* A job that deleted its own artifact after streaming it back (line 182).
DeletedOwnArtifact(r) ==
  r.pc = "done" /\ r.resp = <<Ok200("video", r.artifact)>> /\ r.artifact # NoArtifact

\* C14: one disposal policy per deployment: the timer's sweep deletes no
\* video of the deployment whose jobs delete their video after streaming it
\* back, the two ways of deleting are never both used in one run, and in the
\* deployment that serves artifacts by reference no job deletes its own.
C14_OneDisposalPolicy ==
  /\ \A p \in sweep.deleted : p.t # "video"
  /\ ~(sweep.deleted # {} /\ \E j \in Jobs : DeletedOwnArtifact(job[j]))
  /\ deploy = "part000" => \A j \in Jobs : ~DeletedOwnArtifact(job[j])

\* C15: when a job that got past navigation is answered with a failure, no
\* file the job wrote is in the temp directory.
C15_FailedJobLeavesNoFile ==
  \A j \in Jobs :
    500 \in Statuses(job[j]) /\ job[j].stage # "start" =>
      \A p \in DOMAIN files : files[p].owner # j

\* A job whose own chromium.launch() threw: it passed validation in a
\* deployment that launches a browser per job, and its handler has ended
\* without a browser.
LaunchFailed(r) ==
  /\ deploy \in {"ss", "part000"}
  /\ Finished(r)
  /\ 400 \notin Statuses(r)
  /\ r.engine = "undefined"

\* C16: a browser launch that fails does not end the process and does not
\* leave the service without a browser for good, and the job that needed the
\* browser ends at once with one error result and nothing to release.
C16_LaunchFailureConfined ==
  /\ process = "running"
  /\ browser # "failed"
  /\ \A j \in Jobs :
       LaunchFailed(job[j]) =>
         /\ job[j].pc = "done"
         /\ Len(job[j].resp) = 1 /\ job[j].resp[1].status = 500
         /\ job[j].closeCalls = 0
         /\ job[j].stage = "start"

\* Where a handler awaits a navigation or a capture (page.goto, page.screenshot,
\* the recording wait), and where it awaits the close() that releases its
\* context or browser.
NavigationOrCapture ==
  {"shot_goto", "shot_screenshot", "rec_goto", "rec_wait", "ss_goto", "ss_screenshot",
   "pshot_goto", "pshot_screenshot", "prec_goto", "prec_wait"}
Release == {"shot_close", "rec_close", "rec_catchClose", "ss_close", "p_close"}

Capture ==
  {"shot_screenshot", "rec_wait", "ss_screenshot", "pshot_screenshot",
   "prec_startVideo", "prec_wait"}

\* C18: every job goes through acquisition, navigation, capture, the
\* handing over of its result and release in this order: a page is navigated
\* only in an acquired context, a capture runs only after page.goto returned,
\* a success result is sent only after the capture returned, nothing is
\* captured after a failure, and release is not called before the success
\* result has been handed over.
C18_StatesInOrder ==
  [][\A j \in Jobs :
       /\ job'[j].stage # "start" => Acquired(job'[j])
       /\ job'[j].pc \in Capture => job'[j].stage = "navigated"
       /\ 200 \in Statuses(job'[j]) => job'[j].stage = "captured"
       /\ 500 \in Statuses(job'[j]) \/ job'[j].pc = "rec_catchClose" =>
            job'[j].pc \in Release \cup {"done", "rejected", "killed"}
       /\ 200 \in Statuses(job'[j]) /\ 200 \notin Statuses(job[j]) =>
            job[j].closeCalls = 0]_vars

\* C19: on the shared browser every context a job holds was created for that
\* job alone: a job has a context object exactly when browser.newContext()
\* returned to it, and no two jobs ever hold the same one, open or closed.
C19_ContextHasOneOwner ==
  deploy = "index" =>
    \A j \in Jobs :
      /\ job[j].context # "undefined" <=> job[j].contextId # 0
      /\ \A k \in Jobs \ {j} :
           job[j].contextId # 0 => job[k].contextId # job[j].contextId

\* Two jobs with open contexts on the shared browser at the same time.
C19_Witness ==
  /\ deploy = "index"
  /\ browser = "up"
  /\ \E j, k \in Jobs :
       /\ j # k
       /\ job[j].context = "open" /\ job[j].pc = "shot_goto"
       /\ job[k].context = "open" /\ job[k].pc = "rec_wait"
       /\ job[j].contextId # job[k].contextId

\* C20: on the shared-browser program a valid request handled before the
\* start-up launch has assigned browser ends at once with one 500 response,
\* without a context and without a call of close, and changes nothing else:
\* the process, the pending launch, the files and the other jobs stay as they
\* were, so that requests handled after the launch are served as usual.
C20_EarlyRequestFailsCleanly ==
  [][\A j \in Jobs :
       /\ deploy = "index" /\ browser = "unset"
       /\ job[j].pc = "idle" /\ job'[j].req # NoReq
       /\ 400 \notin Statuses(job'[j])
       => /\ job'[j].pc = "done"
          /\ Len(job'[j].resp) = 1
          /\ job'[j].resp[1].status = 500 /\ job'[j].resp[1].kind = "error"
          /\ job'[j].context = "undefined" /\ job'[j].contextId = 0
          /\ job'[j].closeCalls = 0
          /\ process' = "running" /\ browser' = "unset" /\ files' = files
          /\ \A k \in Jobs \ {j} : job'[k] = job[k]]_vars

\* A request was answered 500 before the launch completed; the process runs
\* and the other job is still to come.
C20_Witness ==
  /\ deploy = "index" /\ browser = "unset" /\ process = "running"
  /\ \E j, k \in Jobs :
       /\ job[j].pc = "done" /\ job[j].req.url = GoodUrl
       /\ Len(job[j].resp) = 1 /\ job[j].resp[1].status = 500
       /\ job[j].context = "undefined" /\ job[j].closeCalls = 0
       /\ job[k].pc = "idle"

\* The same run continued: the launch completed and the later request got its 200.
C20_LaterJobServed ==
  /\ deploy = "index" /\ browser = "up" /\ process = "running"
  /\ \E j, k \in Jobs :
       /\ job[j].pc = "done" /\ job[j].resp # <<>> /\ job[j].resp[1].status = 500
       /\ job[j].contextId = 0
       /\ job[k].pc = "done" /\ Statuses(job[k]) = {200} /\ job[k].contextId = 1

====
